---- MODULE Spec2Model ----
(***************************************************************************)
(* Model of cmd/linkflags (github.com/gravitational/version).              *)
(*                                                                         *)
(* Strings are sequences of one-character strings, so that the regular     *)
(* expressions, bytes.Split, bytes.TrimSpace and fmt.Sprintf of the        *)
(* program are computed character by character.                            *)
(***************************************************************************)
EXTENDS Integers, Sequences, FiniteSets, TLC

VARIABLES
    pc,         \* position of main: "flags", "goToolVersion", "commitID",
                \* "treeState", "version", "linkFlags", "exited"; "pure" when
                \* a function is exercised on its own
    pkg,        \* the value of the flag -pkg
    goVersion,  \* main's goVersion (toolVersion)
    commitID,   \* main's commitID
    treeState,  \* main's treeState
    version,    \* main's version
    linkFlags,  \* main's linkFlags
    stdout,     \* what the process wrote to standard output, write by write
    stderr,     \* what the process wrote to standard error, write by write
    exitCode,   \* <<exit status>> of the process, Running until it ends
    calls,      \* the external commands run so far, with their outcomes
    call,       \* the function exercised on its own and its argument
    ret         \* what that function returned

vars == <<pc, pkg, goVersion, commitID, treeState, version, linkFlags,
          stdout, stderr, exitCode, calls, call, ret>>

mainVars == <<pkg, goVersion, commitID, treeState, version, linkFlags,
              stdout, stderr, exitCode, calls>>

-----------------------------------------------------------------------------
(* Bounds of the inputs.                                                   *)

\* Longest free prefix of a describe string handed to semverify.
MaxPrefixLen == 2

\* Most digits of the commit count of a describe string.
MaxDigits == 2

\* Largest major version of a tool-version string.
MaxMajor == 10

\* Largest minor version of a tool-version string.
MaxMinor == 21

-----------------------------------------------------------------------------
(* Characters and strings.                                                 *)

Digits == <<"0", "1", "2", "3", "4", "5", "6", "7", "8", "9">>

IsDigit(c) == \E d \in 1..10 : Digits[d] = c

DigitValue(c) == (CHOOSE d \in 1..10 : Digits[d] = c) - 1

IsLowerHex(c) == IsDigit(c) \/ c \in {"a", "b", "c", "d", "e", "f"}

IsSpace(c) == c \in {" ", "\n", "\t", "\r"}

HasPrefixAt(s, i, p) ==
    /\ i >= 1
    /\ i + Len(p) - 1 <= Len(s)
    /\ \A k \in 1..Len(p) : s[i + k - 1] = p[k]

HasSuffix(s, p) == Len(p) <= Len(s) /\ HasPrefixAt(s, Len(s) - Len(p) + 1, p)

Min(S) == CHOOSE x \in S : \A y \in S : x <= y

Max(S) == CHOOSE x \in S : \A y \in S : x >= y

RECURSIVE Join(_, _)
Join(elems, sep) ==
    IF elems = <<>> THEN <<>>
    ELSE IF Len(elems) = 1 THEN elems[1]
    ELSE elems[1] \o sep \o Join(Tail(elems), sep)

\* bytes.Split(s, sep) for a one-character separator.
RECURSIVE Split(_, _)
Split(s, sep) ==
    LET hits == {i \in 1..Len(s) : s[i] = sep}
    IN  IF hits = {} THEN <<s>>
        ELSE LET i == Min(hits)
             IN  <<SubSeq(s, 1, i - 1)>> \o Split(SubSeq(s, i + 1, Len(s)), sep)

TrimSpace(s) ==
    LET solid == {i \in 1..Len(s) : ~IsSpace(s[i])}
    IN  IF solid = {} THEN <<>> ELSE SubSeq(s, Min(solid), Max(solid))

\* Length of the longest run of digits of s that starts at position i.
RECURSIVE DigitRun(_, _)
DigitRun(s, i) ==
    IF i <= Len(s) /\ IsDigit(s[i]) THEN 1 + DigitRun(s, i + 1) ELSE 0

RECURSIVE StripZeros(_)
StripZeros(ds) ==
    IF Len(ds) > 1 /\ ds[1] = "0" THEN StripZeros(Tail(ds)) ELSE ds

RECURSIVE DecimalValue(_)
DecimalValue(ds) ==
    IF ds = <<>> THEN 0
    ELSE 10 * DecimalValue(SubSeq(ds, 1, Len(ds) - 1)) + DigitValue(ds[Len(ds)])

RECURSIVE Itoa(_)
Itoa(n) == IF n < 10 THEN <<Digits[n + 1]>> ELSE Itoa(n \div 10) \o <<Digits[(n % 10) + 1]>>

-----------------------------------------------------------------------------
(* semverPattern: (.+)-([0-9]{1,})-g([0-9a-f]{14})$  and semverify.        *)

\* The {14} of semverPattern: the width of the abbreviated hash.
HashLen == 14

\* `.` of a Go regular expression without the s flag: any character but a
\* line break.
AnyChar(c) == c # "\n"

DollarNoAnchor(s, h) == TRUE

\* `$` of a Go regular expression without the m flag: the end of the text.
\* h is the position of the last character matched.
Dollar(s, h) == h = Len(s)

\* Every way semverPattern matches inside s: <<i, e, h>> where group 1 is
\* s[i..e], "-" is at e+1, group 2 runs from e+2 to h-HashLen-2, "-g" is at
\* h-HashLen-1 and h-HashLen, and group 3 is the last HashLen characters up to
\* h.  The pattern is not anchored at its start.
semverPattern(s) ==
    LET ends == {h \in (HashLen + 5)..Len(s) :
                    /\ Dollar(s, h)
                    /\ \A k \in (h - HashLen + 1)..h : IsLowerHex(s[k])
                    /\ s[h - HashLen] = "g"
                    /\ s[h - HashLen - 1] = "-"}
        seconds(h) == {e \in 1..(h - HashLen - 4) :
                    /\ s[e + 1] = "-"
                    /\ \A k \in (e + 2)..(h - HashLen - 2) : IsDigit(s[k])}
        firsts(e) == {i \in 1..e : \A k \in i..e : AnyChar(s[k])}
    IN  UNION {UNION {{<<i, e, h>> : i \in firsts(e)} : e \in seconds(h)} : h \in ends}

\* regexp.FindStringSubmatchIndex: the leftmost match, and of those the one
\* the greedy operators prefer (the longest group 1); <<>> stands for nil.
FindSemverSubmatchIndex(s) ==
    LET M == semverPattern(s)
    IN  IF M = {} THEN <<>>
        ELSE LET i == Min({m[1] : m \in M})
                 e == Max({m[2] : m \in {n \in M : n[1] = i}})
                 h == Max({m[3] : m \in {n \in M : n[1] = i /\ n[2] = e}})
             IN  <<i, e, h>>

ExpandKeepsDash(g1, g2, g3) == g1 \o <<"-">> \o g2 \o <<"+">> \o g3

\* regexp.ExpandString(nil, "$1.$2+$3", ...): the template alone, with the
\* groups filled in; text of the source outside the match is not copied.
ExpandSemver(g1, g2, g3) == g1 \o <<".">> \o g2 \o <<"+">> \o g3

semverify(v) ==
    LET match == FindSemverSubmatchIndex(v)
    IN  IF match # <<>>
        THEN ExpandSemver(SubSeq(v, match[1], match[2]),
                          SubSeq(v, match[2] + 2, match[3] - HashLen - 2),
                          SubSeq(v, match[3] - HashLen + 1, match[3]))
        ELSE v

-----------------------------------------------------------------------------
(* goVersionPattern: go([1-9])\.(\d+)(?:.\d+)*  and parseToolVersion.      *)

toolVersionUnknown == 0

\* The largest int of a 64-bit build, in decimal.
MaxIntDecimal ==
    <<"9", "2", "2", "3", "3", "7", "2", "0", "3", "6",
      "8", "5", "4", "7", "7", "5", "8", "0", "7">>

\* a > b for two digit strings of one length.
RECURSIVE DecimalGreater(_, _)
DecimalGreater(a, b) ==
    IF a = <<>> THEN FALSE
    ELSE IF a[1] # b[1] THEN DigitValue(a[1]) > DigitValue(b[1])
    ELSE DecimalGreater(Tail(a), Tail(b))

\* strconv.Atoi fails with a range error on a digit string beyond int.
AtoiOutOfRange(ds) ==
    LET z == StripZeros(ds)
    IN  \/ Len(z) > Len(MaxIntDecimal)
        \/ Len(z) = Len(MaxIntDecimal) /\ DecimalGreater(z, MaxIntDecimal)

\* Where go([1-9])\.(\d+) matches inside s: the position of its "g".
goVersionPattern(s) ==
    {i \in 1..Len(s) :
        /\ HasPrefixAt(s, i, <<"g", "o">>)
        /\ i + 4 <= Len(s)
        /\ IsDigit(s[i + 2]) /\ s[i + 2] # "0"
        /\ s[i + 3] = "."
        /\ IsDigit(s[i + 4])}

\* (?:.\d+)* from the character after position p: the last position matched.
RECURSIVE PatchEnd(_, _)
PatchEnd(s, p) ==
    IF p + 2 <= Len(s) /\ AnyChar(s[p + 1]) /\ IsDigit(s[p + 2])
    THEN PatchEnd(s, p + 1 + DigitRun(s, p + 2))
    ELSE p

\* regexp.FindStringSubmatch: <<whole match, group 1, group 2>> of the
\* leftmost match, <<>> for nil.
FindGoVersionSubmatch(s) ==
    LET starts == goVersionPattern(s)
    IN  IF starts = {} THEN <<>>
        ELSE LET i == Min(starts)
                 n == DigitRun(s, i + 4)
             IN  <<SubSeq(s, i, PatchEnd(s, i + 3 + n)),
                   <<s[i + 2]>>,
                   SubSeq(s, i + 4, i + 3 + n)>>

EncodeMinorFirst(major, minor) == minor * 10 + major

\* toolVersion(major*10 + minor)
EncodeToolVersion(major, minor) == major * 10 + minor

\* The outcome of parseToolVersion: the value returned, or the panic of
\* mustAtoi.  (Values are kept below 2^31 by the inputs of the model.)
parseToolVersion(v) ==
    LET match == FindGoVersionSubmatch(v)
    IN  IF Len(match) > 2
        THEN IF AtoiOutOfRange(match[2]) \/ AtoiOutOfRange(match[3])
             THEN [panicked |-> TRUE, value |-> toolVersionUnknown]
             ELSE [panicked |-> FALSE,
                   value |-> EncodeToolVersion(DecimalValue(match[2]),
                                               DecimalValue(match[3]))]
        ELSE [panicked |-> FALSE, value |-> toolVersionUnknown]

-----------------------------------------------------------------------------
(* The process and its surroundings.                                       *)

versionPackage ==
    <<"g", "i", "t", "h", "u", "b", ".", "c", "o", "m", "/", "g", "r", "a", "v", "i", "t", "a", "t", "i", "o", "n", "a", "l", "/">>
    \o <<"v", "e", "r", "s", "i", "o", "n">>

\* The exit status of a process that has not ended: none yet.  That of one
\* that has ended is <<status>>.
Running == <<>>

clean == <<"c", "l", "e", "a", "n">>

dirty == <<"d", "i", "r", "t", "y">>

DirtySuffix == <<"-", "d", "i", "r", "t", "y">>

\* --abbrev=14 of git describe.
AbbrevLen == 14

\* Values of -pkg: not given, and a path.
PkgArgs == {<<>>, <<"a", "p", "p">>}

\* The log package ends a message with a line break unless it has one.
LogOutput(text) ==
    IF text # <<>> /\ text[Len(text)] = "\n" THEN text ELSE text \o <<"\n">>

\* toolError.Error(), without the quotes around the tool.
ToolErrorString(tool, out) ==
    <<"e", "r", "r", "o", "r", " ", "e", "x", "e", "c", "u", "t", "i", "n", "g", " ">> \o tool \o <<":", " ", "e", "x", "i", "t", " ", "s", "t", "a", "t", "u", "s", " ", "1", " ", "(">> \o out \o <<")">>

-----------------------------------------------------------------------------
(* What the external commands can answer.                                  *)

\* Tool-version tokens go<major>.<minor>, with the patch and the suffixes
\* releases carry, and tokens of other shapes.
ShapedTokens ==
    {<<"g", "o">> \o Itoa(major) \o <<".">> \o Itoa(minor) \o patch :
        major \in 0..MaxMajor, minor \in 0..MaxMinor,
        patch \in {<<>>, <<".", "3">>}}

OddTokens ==
    { <<"d", "e", "v", "e", "l">>, <<"g", "o", "1">>, <<"g", "o", "1", ".">>, <<"g", "o", ".", "4">>, <<"g", "o", "1", "x", "4">>, <<"g", "o", "1", ".", "0", "4">>,
      <<"g", "o", "1", ".", "4", "b", "e", "t", "a", "1">>, <<"x", "g", "o", "1", ".", "4">>, <<"g", "o", "1", ".", "4", " ", "5">>, <<>>,
      <<"g", "o", "1", ".">> \o [i \in 1..20 |-> "9"] }

ToolVersionTokens == ShapedTokens \cup OddTokens

\* `go version`: the command cannot run, or prints "go version <token>
\* <os>/<arch>", or prints less.
GoVersionRuns ==
    {[err |-> TRUE, out |-> <<"e", "x", "e", "c", ":", " ", "g", "o", ":", " ", "n", "o", "t", " ", "f", "o", "u", "n", "d">>]}
    \cup {[err |-> FALSE, out |-> <<"g", "o", " ", "v", "e", "r", "s", "i", "o", "n">> \o <<"\n">>]}
    \cup {[err |-> FALSE,
           out |-> <<"g", "o", " ", "v", "e", "r", "s", "i", "o", "n", " ">> \o tok \o <<" ", "l", "i", "n", "u", "x", "/", "a", "m", "d", "6", "4">> \o <<"\n">>] :
            tok \in {t \in ToolVersionTokens :
                        t \in OddTokens \/ ~HasSuffix(t, <<".", "3">>)
                        \/ t = <<"g", "o", "1", ".", "2", "1", ".", "3">> \/ t = <<"g", "o", "1", ".", "4", ".", "3">>}}

GitFailure == [err |-> TRUE, out |-> <<"f", "a", "t", "a", "l", ":", " ", "n", "o", "t", " ", "a", " ", "g", "i", "t", " ", "r", "e", "p", "o", "s", "i", "t", "o", "r", "y">> \o <<"\n">>]

\* Full commit identifiers.
CommitIDs ==
    {[i \in 1..40 |-> "a"],
     [i \in 1..40 |-> IF i % 2 = 1 THEN "1" ELSE "f"]}

RevParseRuns ==
    {GitFailure} \cup {[err |-> FALSE, out |-> c \o <<"\n">>] : c \in CommitIDs}

\* `git status --porcelain` prints nothing for a clean tree and one line per
\* changed path otherwise.
StatusRuns ==
    {GitFailure,
     [err |-> FALSE, out |-> <<>>],
     [err |-> FALSE, out |-> <<" ", "M", " ", "m", "a", "i", "n", ".", "g", "o">> \o <<"\n">>]}

Tags == { <<"v", "1", ".", "2", ".", "0">>, <<"r", "c", "-", "d", "i", "r", "t", "y">> }

\* What git may print before its answer: CombinedOutput holds the standard
\* error of the command as well.
Warnings == {<<>>, <<"w", "a", "r", "n", "i", "n", "g", ":", " ", "x">> \o <<"\n">>}

\* `git describe --tags --abbrev=14`: the tag alone when the commit is tagged,
\* else <tag>-<N>-g<hash>, the hash at least AbbrevLen digits long.
DescribeRuns(c) ==
    {[err |-> TRUE, out |-> <<"f", "a", "t", "a", "l", ":", " ", "N", "o", " ", "n", "a", "m", "e", "s", " ", "f", "o", "u", "n", "d">> \o <<"\n">>]}
    \cup {[err |-> FALSE, out |-> w \o tag \o <<"\n">>] : w \in Warnings, tag \in Tags}
    \cup {[err |-> FALSE,
           out |-> w \o tag \o <<"-">> \o n \o <<"-", "g">> \o SubSeq(c, 1, k) \o <<"\n">>] :
            w \in Warnings, tag \in Tags, n \in {<<"1">>, <<"1", "2">>},
            k \in {AbbrevLen, AbbrevLen + 1}}

-----------------------------------------------------------------------------
(* The functions of main.go.                                               *)

\* goToolVersion, given what `go version` did.
goToolVersion(run) ==
    IF run.err
    THEN [value |-> toolVersionUnknown, err |-> TRUE, panicked |-> FALSE]
    ELSE LET build == Split(run.out, " ")
         IN  IF Len(build) > 2
             THEN LET parsed == parseToolVersion(build[3])
                  IN  [value |-> parsed.value, err |-> FALSE,
                       panicked |-> parsed.panicked]
             ELSE [value |-> toolVersionUnknown, err |-> FALSE, panicked |-> FALSE]

\* newGit: the arguments every git command starts with.
newGit(p) ==
    << <<"-", "-", "w", "o", "r", "k", "-", "t", "r", "e", "e">>, p, <<"-", "-", "g", "i", "t", "-", "d", "i", "r">>, p \o <<"/", ".", "g", "i", "t">> >>

gitExecDropsError(run) == [out |-> TrimSpace(run.out), err |-> FALSE]

\* git.exec, given what the command did: the output is trimmed on success
\* only.
gitExec(run) ==
    [out |-> IF ~run.err THEN TrimSpace(run.out) ELSE run.out, err |-> run.err]

\* git.treeState, given the result of exec.
gitTreeState(res) ==
    IF res.err THEN [state |-> <<>>, err |-> TRUE]
    ELSE IF Len(res.out) = 0 THEN [state |-> clean, err |-> FALSE]
    ELSE [state |-> dirty, err |-> FALSE]

derivedVersionKeepsOutput(res, state) ==
    IF res.out # <<>>
    THEN IF state = dirty THEN semverify(res.out) \o DirtySuffix
         ELSE semverify(res.out)
    ELSE <<>>

derivedVersionNeverDirty(res, state) ==
    IF res.err \/ res.out = <<>> THEN <<>> ELSE semverify(res.out)

\* main, lines 48 to 57: the version from the result of git.version and the
\* tree state.
derivedVersion(res, state) ==
    LET described == IF res.err THEN <<>> ELSE res.out
    IN  IF described # <<>>
        THEN IF state = dirty
             THEN semverify(described) \o DirtySuffix
             ELSE semverify(described)
        ELSE <<>>

LegacyMax == 14

linkFlagLegacyBelow(gv, key, value) ==
    IF gv < LegacyMax
    THEN <<"-", "X", " ">> \o versionPackage \o <<".">> \o key \o <<" ">> \o value
    ELSE <<"-", "X", " ">> \o versionPackage \o <<".">> \o key \o <<"=">> \o value

\* main's closure linkFlag over goVersion.
linkFlag(gv, key, value) ==
    IF gv <= LegacyMax
    THEN <<"-", "X", " ">> \o versionPackage \o <<".">> \o key \o <<" ">> \o value
    ELSE <<"-", "X", " ">> \o versionPackage \o <<".">> \o key \o <<"=">> \o value

buildLinkFlagsVersionFirst(gv, cid, state, v) ==
    (IF v # <<>> THEN <<linkFlag(gv, <<"v", "e", "r", "s", "i", "o", "n">>, v)>> ELSE <<>>)
    \o (IF cid # <<>>
        THEN <<linkFlag(gv, <<"g", "i", "t", "C", "o", "m", "m", "i", "t">>, cid),
               linkFlag(gv, <<"g", "i", "t", "T", "r", "e", "e", "S", "t", "a", "t", "e">>, state)>>
        ELSE <<>>)

\* main, lines 59 to 75.
buildLinkFlags(gv, cid, state, v) ==
    (IF cid # <<>>
     THEN <<linkFlag(gv, <<"g", "i", "t", "C", "o", "m", "m", "i", "t">>, cid),
            linkFlag(gv, <<"g", "i", "t", "T", "r", "e", "e", "S", "t", "a", "t", "e">>, state)>>
     ELSE <<>>)
    \o (IF v # <<>> THEN <<linkFlag(gv, <<"v", "e", "r", "s", "i", "o", "n">>, v)>> ELSE <<>>)

-----------------------------------------------------------------------------
(* A run of the command.                                                   *)

NoCall == [fn |-> "none", arg |-> <<>>]

NoRet == [done |-> FALSE, str |-> <<>>, value |-> 0, panicked |-> FALSE,
          twice |-> FALSE, again |-> <<>>]

Init ==
    /\ pc = "flags"
    /\ pkg = <<>>
    /\ goVersion = 0
    /\ commitID = <<>>
    /\ treeState = <<>>
    /\ version = <<>>
    /\ linkFlags = <<>>
    /\ stdout = <<>>
    /\ stderr = <<>>
    /\ exitCode = Running
    /\ calls = <<>>
    /\ call = NoCall
    /\ ret = NoRet

\* log.Fatalf and log.Fatalln: the message on standard error, then
\* os.Exit(1).
Fatal(text) ==
    /\ stderr' = Append(stderr, [via |-> "Fatal", text |-> LogOutput(text)])
    /\ stdout' = stdout
    /\ exitCode' = <<1>>
    /\ pc' = "exited"

\* A panic that nothing recovers: the runtime reports it on standard error
\* and the process exits with status 2.
Panic(text) ==
    /\ stderr' = Append(stderr, [via |-> "panic", text |-> <<"p", "a", "n", "i", "c", ":", " ">> \o text \o <<"\n">>])
    /\ stdout' = stdout
    /\ exitCode' = <<2>>
    /\ pc' = "exited"

\* The record of one external command.
Ran(cmd, args, run) == [cmd |-> cmd, args |-> args, err |-> run.err, out |-> run.out]

\* main, lines 27 to 31.
ParseFlags ==
    /\ pc = "flags"
    /\ \E p \in PkgArgs :
        /\ pkg' = p
        /\ IF p = <<>>
           THEN Fatal(<<"p", "k", "g", " ", "r", "e", "q", "u", "i", "r", "e", "d">>)
           ELSE /\ pc' = "goToolVersion"
                /\ UNCHANGED <<stdout, stderr, exitCode>>
    /\ UNCHANGED <<goVersion, commitID, treeState, version, linkFlags, calls, call, ret>>

\* main, lines 33 to 36.
GoToolVersion ==
    /\ pc = "goToolVersion"
    /\ \E run \in GoVersionRuns :
        LET res == goToolVersion(run)
        IN  /\ calls' = Append(calls, Ran(<<"g", "o">>, << <<"v", "e", "r", "s", "i", "o", "n">> >>, run))
            /\ IF res.panicked
               THEN /\ Panic(<<"s", "t", "r", "c", "o", "n", "v", ".", "A", "t", "o", "i", ":", " ", "v", "a", "l", "u", "e", " ", "o", "u", "t", " ", "o", "f", " ", "r", "a", "n", "g", "e">>)
                    /\ UNCHANGED goVersion
               ELSE IF res.err
               THEN /\ Fatal(<<"f", "a", "i", "l", "e", "d", " ", "t", "o", " ", "d", "e", "t", "e", "r", "m", "i", "n", "e", " ", "g", "o", " ", "t", "o", "o", "l", " ", "v", "e", "r", "s", "i", "o", "n", ":", " ">>
                             \o ToolErrorString(<<"g", "o">>, run.out) \o <<"\n">>)
                    /\ UNCHANGED goVersion
               ELSE /\ goVersion' = res.value
                    /\ pc' = "commitID"
                    /\ UNCHANGED <<stdout, stderr, exitCode>>
    /\ UNCHANGED <<pkg, commitID, treeState, version, linkFlags, call, ret>>

\* main, lines 38 to 42.
CommitID ==
    /\ pc = "commitID"
    /\ \E run \in RevParseRuns :
        LET res == gitExec(run)
        IN  /\ calls' = Append(calls,
                    Ran(<<"g", "i", "t">>, newGit(pkg) \o << <<"r", "e", "v", "-", "p", "a", "r", "s", "e">>, <<"H", "E", "A", "D", "^", "{", "c", "o", "m", "m", "i", "t", "}">> >>, run))
            /\ IF res.err
               THEN /\ Fatal(<<"f", "a", "i", "l", "e", "d", " ", "t", "o", " ", "o", "b", "t", "a", "i", "n", " ", "g", "i", "t", " ", "c", "o", "m", "m", "i", "t", " ", "I", "D", ":", " ">>
                             \o ToolErrorString(<<"g", "i", "t">>, res.out) \o <<"\n">>)
                    /\ UNCHANGED commitID
               ELSE /\ commitID' = res.out
                    /\ pc' = "treeState"
                    /\ UNCHANGED <<stdout, stderr, exitCode>>
    /\ UNCHANGED <<pkg, goVersion, treeState, version, linkFlags, call, ret>>

\* main, lines 43 to 46.
TreeState ==
    /\ pc = "treeState"
    /\ \E run \in StatusRuns :
        LET res == gitTreeState(gitExec(run))
        IN  /\ calls' = Append(calls,
                    Ran(<<"g", "i", "t">>, newGit(pkg) \o << <<"s", "t", "a", "t", "u", "s">>, <<"-", "-", "p", "o", "r", "c", "e", "l", "a", "i", "n">> >>, run))
            /\ IF res.err
               THEN /\ Fatal(<<"f", "a", "i", "l", "e", "d", " ", "t", "o", " ", "d", "e", "t", "e", "r", "m", "i", "n", "e", " ", "g", "i", "t", " ", "t", "r", "e", "e", " ", "s", "t", "a", "t", "e", ":", " ">>
                             \o ToolErrorString(<<"g", "i", "t">>, run.out) \o <<"\n">>)
                    /\ UNCHANGED treeState
               ELSE /\ treeState' = res.state
                    /\ pc' = "version"
                    /\ UNCHANGED <<stdout, stderr, exitCode>>
    /\ UNCHANGED <<pkg, goVersion, commitID, version, linkFlags, call, ret>>

\* main, lines 47 to 57.
Version ==
    /\ pc = "version"
    /\ \E run \in DescribeRuns(commitID) :
        /\ calls' = Append(calls,
                Ran(<<"g", "i", "t">>,
                    newGit(pkg) \o << <<"d", "e", "s", "c", "r", "i", "b", "e">>, <<"-", "-", "t", "a", "g", "s">>, <<"-", "-", "a", "b", "b", "r", "e", "v", "=", "1", "4">>,
                                      commitID \o <<"^", "{", "c", "o", "m", "m", "i", "t", "}">> >>,
                    run))
        /\ version' = derivedVersion(gitExec(run), treeState)
    /\ pc' = "linkFlags"
    /\ UNCHANGED <<pkg, goVersion, commitID, treeState, linkFlags,
                   stdout, stderr, exitCode, call, ret>>

\* main, lines 59 to 78: the settings are built and printed with log.Printf,
\* whose logger writes to standard error; main returns.
LinkFlags ==
    /\ pc = "linkFlags"
    /\ linkFlags' = buildLinkFlags(goVersion, commitID, treeState, version)
    /\ stderr' = Append(stderr, [via |-> "Printf",
                                 text |-> LogOutput(Join(linkFlags', <<" ">>))])
    /\ stdout' = stdout
    /\ exitCode' = <<0>>
    /\ pc' = "exited"
    /\ UNCHANGED <<pkg, goVersion, commitID, treeState, version, calls, call, ret>>

Next ==
    \/ ParseFlags
    \/ GoToolVersion
    \/ CommitID
    \/ TreeState
    \/ Version
    \/ LinkFlags

Spec == Init /\ [][Next]_vars

-----------------------------------------------------------------------------
(* semverify and parseToolVersion on their own.                            *)

PrefixAlphabet == {"v", "a", "1", "-", "g", "\n"}

Prefixes == UNION {[1..k -> PrefixAlphabet] : k \in 0..MaxPrefixLen}

Counts == UNION {[1..k -> {"0", "1"}] : k \in 0..MaxDigits}

\* Hashes of the width of the pattern, one shorter, one longer, and with a
\* character that is no lower-case hexadecimal digit.
Hashes ==
    {<<>>,
     [i \in 1..(HashLen - 1) |-> "a"],
     [i \in 1..HashLen |-> "a"],
     [i \in 1..(HashLen + 1) |-> "a"],
     [i \in 1..HashLen |-> IF i % 2 = 1 THEN "1" ELSE "f"],
     [i \in 1..HashLen |-> IF i = 7 THEN "g" ELSE "a"],
     [i \in 1..HashLen |-> "A"]}

\* Strings around the shape <prefix>-<N>-g<H>.
SemverInputs ==
    {p \o j1 \o n \o j2 \o h \o d :
        p \in Prefixes, j1 \in {<<>>, <<"-">>}, n \in Counts,
        j2 \in {<<>>, <<"g">>, <<"-", "g">>}, h \in Hashes,
        d \in {<<>>, DirtySuffix}}

PureInit ==
    /\ pc = "pure"
    /\ pkg = <<>>
    /\ goVersion = 0
    /\ commitID = <<>>
    /\ treeState = <<>>
    /\ version = <<>>
    /\ linkFlags = <<>>
    /\ stdout = <<>>
    /\ stderr = <<>>
    /\ exitCode = Running
    /\ calls = <<>>
    /\ call \in {[fn |-> "semverify", arg |-> s] : s \in SemverInputs}
            \cup {[fn |-> "parseToolVersion", arg |-> t] : t \in ToolVersionTokens}
    /\ ret = NoRet

CallSemverify ==
    /\ pc = "pure"
    /\ call.fn = "semverify"
    /\ ~ret.done
    /\ ret' = [ret EXCEPT !.done = TRUE, !.str = semverify(call.arg)]
    /\ UNCHANGED <<pc, mainVars, call>>

\* semverify applied to its own result.
CallSemverifyAgain ==
    /\ pc = "pure"
    /\ call.fn = "semverify"
    /\ ret.done /\ ~ret.twice
    /\ ret' = [ret EXCEPT !.twice = TRUE, !.again = semverify(ret.str)]
    /\ UNCHANGED <<pc, mainVars, call>>

CallParseToolVersion ==
    /\ pc = "pure"
    /\ call.fn = "parseToolVersion"
    /\ ~ret.done
    /\ LET parsed == parseToolVersion(call.arg)
       IN  ret' = [ret EXCEPT !.done = TRUE, !.value = parsed.value,
                              !.panicked = parsed.panicked]
    /\ UNCHANGED <<pc, mainVars, call>>

PureNext ==
    \/ CallSemverify
    \/ CallSemverifyAgain
    \/ CallParseToolVersion

PureSpec == PureInit /\ [][PureNext]_vars

-----------------------------------------------------------------------------
(* What the properties below speak of.                                     *)

\* The external commands run so far that were given the argument name.
Invoked(name) ==
    {i \in 1..Len(calls) : \E k \in 1..Len(calls[i].args) : calls[i].args[k] = name}

FailedCall(name) == \E i \in Invoked(name) : calls[i].err

\* The third word of what `go version` printed, <<>> without one.
GoVersionToken ==
    IF Invoked(<<"v", "e", "r", "s", "i", "o", "n">>) = {} THEN <<>>
    ELSE LET run == calls[Min(Invoked(<<"v", "e", "r", "s", "i", "o", "n">>))]
             build == Split(run.out, " ")
         IN  IF ~run.err /\ Len(build) > 2 THEN build[3] ELSE <<>>

\* The writes of link settings, on either stream.
SettingsOn(stream) == SelectSeq(stream, LAMBDA w : w.via = "Printf")

DiagnosticsOn(stream) == SelectSeq(stream, LAMBDA w : w.via # "Printf")

WithoutLineBreak(text) ==
    IF text # <<>> /\ text[Len(text)] = "\n" THEN SubSeq(text, 1, Len(text) - 1) ELSE text

Succeeded == pc = "exited" /\ exitCode = <<0>>

\* A formatted setting is "-X <package>.<key><separator><value>"; the key
\* is made of letters.
KeyStart == Len(versionPackage) + 5

SeparatorAt(flag) == Min({i \in KeyStart..Len(flag) : flag[i] \in {" ", "="}})

KeyOf(flag) == SubSeq(flag, KeyStart, SeparatorAt(flag) - 1)

ValueOf(flag) == SubSeq(flag, SeparatorAt(flag) + 1, Len(flag))

WellFormed(flag) ==
    /\ HasPrefixAt(flag, 1, <<"-", "X", " ">> \o versionPackage \o <<".">>)
    /\ \E i \in KeyStart..Len(flag) : flag[i] \in {" ", "="}

\* The version has been derived: main is past line 57.
VersionDerived == pc = "linkFlags" \/ Succeeded

\* What git.exec returned for the command given name, which succeeded.
Obtained(name) == TrimSpace(calls[Min(Invoked(name))].out)

-----------------------------------------------------------------------------
(* C1 *)

\* C1 (as stated): whenever `go version` fails to run or its output does not
\* parse, so that the detector yields the unknown sentinel 0, the run has
\* ended with a non-zero exit and printed no settings; main never stands
\* before flag formatting with the tool version unknown.
C1_UnknownToolVersionIsFatal ==
    /\ \A i \in Invoked(<<"v", "e", "r", "s", "i", "o", "n">>) :
          (calls[i].err \/ goToolVersion(calls[i]).value = toolVersionUnknown)
              => /\ pc = "exited"
                 /\ exitCode # <<0>>
                 /\ SettingsOn(stdout) = <<>> /\ SettingsOn(stderr) = <<>>
    /\ pc = "linkFlags" => goVersion # toolVersionUnknown

-----------------------------------------------------------------------------
(* C2 *)

\* s is p-N-gH with p the first a characters, N a run of decimal digits and
\* H exactly HashLen lower-case hexadecimal digits that end s.
SemverShape(s, a) ==
    LET b == Len(s) - HashLen - 3 - a
    IN  /\ b >= 1
        /\ s[a + 1] = "-"
        /\ \A k \in (a + 2)..(a + 1 + b) : IsDigit(s[k])
        /\ s[a + b + 2] = "-"
        /\ s[a + b + 3] = "g"
        /\ \A k \in (a + b + 4)..Len(s) : IsLowerHex(s[k])

\* p.N+H, p taken from position from on.
Rewritten(s, a, from) ==
    SubSeq(s, from, a) \o <<".">> \o SubSeq(s, a + 2, Len(s) - HashLen - 2)
        \o <<"+">> \o SubSeq(s, Len(s) - HashLen + 1, Len(s))

ReferenceNormalizer(s) ==
    IF \E a \in 1..Len(s) : SemverShape(s, a)
    THEN Rewritten(s, CHOOSE a \in 1..Len(s) : SemverShape(s, a), 1)
    ELSE s

\* C2 (as stated): on every input, semverify returns <prefix>.<N>+<H> when
\* the input is <prefix>-<N>-g<H>, whatever the (non-empty) prefix holds, and
\* the input unchanged otherwise.
C2_AgreesWithReference ==
    (call.fn = "semverify" /\ ret.done) => ret.str = ReferenceNormalizer(call.arg)

\* Where the last line of the first a characters of s starts.
LastLineStart(s, a) == 1 + Max({0} \cup {k \in 1..a : s[k] = "\n"})

\* C2 (amended): when the input is <prefix>-<N>-g<H> and the prefix does not
\* end at a line break (nor is empty), semverify returns <p>.<N>+<H> where p
\* is the last line of the prefix: the whole prefix when it holds no line
\* break; every other input is returned unchanged.
C2_NormalizesLastLine ==
    (call.fn = "semverify" /\ ret.done) =>
        LET s == call.arg
            fits == {a \in 1..Len(s) : SemverShape(s, a) /\ s[a] # "\n"}
        IN  IF fits # {}
            THEN \A a \in fits : ret.str = Rewritten(s, a, LastLineStart(s, a))
            ELSE ret.str = s

\* C2 witness: a describe string of the shape, N = 0 included, normalized.
C2_Witness ==
    /\ call.fn = "semverify" /\ ret.done
    /\ call.arg = <<"v", "-", "0", "-", "g">> \o [i \in 1..HashLen |-> "a"]
    /\ ret.str = <<"v", ".", "0", "+">> \o [i \in 1..HashLen |-> "a"]

-----------------------------------------------------------------------------
(* C3 *)

\* C3 (as stated): once the version is derived, a dirty tree gives a version
\* that ends with -dirty and a clean tree one that does not.
C3_DirtySuffixIffDirty ==
    VersionDerived =>
        /\ treeState = dirty => HasSuffix(version, DirtySuffix)
        /\ treeState = clean => ~HasSuffix(version, DirtySuffix)

\* C3 (amended): once the version is derived: when the describe query failed
\* or gave nothing the version is empty, whatever the tree state; otherwise
\* a dirty tree gives the normalized describe string followed by -dirty, and
\* a clean tree gives it with nothing added, so that it ends with -dirty only
\* when the describe string itself does.
C3_DirtySuffixOnNonEmpty ==
    VersionDerived =>
        LET failed == FailedCall(<<"d", "e", "s", "c", "r", "i", "b", "e">>)
            raw == IF failed THEN <<>> ELSE Obtained(<<"d", "e", "s", "c", "r", "i", "b", "e">>)
        IN  /\ raw = <<>> => version = <<>>
            /\ (raw # <<>> /\ treeState = dirty) =>
                  /\ HasSuffix(version, DirtySuffix)
                  /\ Len(version) >= Len(DirtySuffix) + 1
            /\ (raw # <<>> /\ treeState = clean) =>
                  /\ version # <<>>
                  /\ HasSuffix(version, DirtySuffix) <=> HasSuffix(raw, DirtySuffix)

\* C3 witness: a dirty tree and an exact tag, passed through and suffixed.
C3_Witness ==
    /\ VersionDerived
    /\ treeState = dirty
    /\ ~FailedCall(<<"d", "e", "s", "c", "r", "i", "b", "e">>)
    /\ version = Obtained(<<"d", "e", "s", "c", "r", "i", "b", "e">>) \o DirtySuffix

-----------------------------------------------------------------------------
(* C4 *)

\* s is go<major>.<minor>... with major the m digits after "go", the first
\* of them not 0, and minor the n digits after the dot, whatever follows
\* them.
ToolVersionShape(s, m, n) ==
    /\ HasPrefixAt(s, 1, <<"g", "o">>)
    /\ m >= 1 /\ n >= 1 /\ 3 + m + n <= Len(s)
    /\ \A k \in 3..(2 + m) : IsDigit(s[k])
    /\ s[3] # "0"
    /\ s[3 + m] = "."
    /\ \A k \in (4 + m)..(3 + m + n) : IsDigit(s[k])
    /\ (3 + m + n = Len(s) \/ ~IsDigit(s[4 + m + n]))

\* C4 (as stated): a string of the shape go<major>.<minor>(.<patch>...)? is
\* encoded as major*10 + minor, never 0 nor negative, whatever major and
\* minor are; every other string gives 0.
C4_EncodesEveryShapedString ==
    (call.fn = "parseToolVersion" /\ ret.done) =>
        LET s == call.arg
            shapes == {mn \in (1..Len(s)) \X (1..Len(s)) : ToolVersionShape(s, mn[1], mn[2])}
        IN  /\ ~ret.panicked
            /\ IF shapes # {}
               THEN \A mn \in shapes :
                      /\ ret.value = 10 * DecimalValue(SubSeq(s, 3, 2 + mn[1]))
                                     + DecimalValue(SubSeq(s, 4 + mn[1], 3 + mn[1] + mn[2]))
                      /\ ret.value > 0
               ELSE ret.value = toolVersionUnknown

\* s holds at position i the token go<d>.<minor> with d one digit from 1 to
\* 9 and minor the n digits after the dot, no digit following them.
ToolVersionTokenAt(s, i, n) ==
    /\ HasPrefixAt(s, i, <<"g", "o">>)
    /\ n >= 1 /\ i + 3 + n <= Len(s)
    /\ s[i + 2] \in {"1", "2", "3", "4", "5", "6", "7", "8", "9"}
    /\ s[i + 3] = "."
    /\ \A k \in (i + 4)..(i + 3 + n) : IsDigit(s[k])
    /\ (i + 3 + n = Len(s) \/ ~IsDigit(s[i + 4 + n]))

\* C4 (amended): a string that holds a token go<d>.<minor>, d one digit from
\* 1 to 9, is encoded as d*10 + minor of the leftmost such token, whatever
\* stands before or after the token, and that value is at least 10, provided
\* minor has at most 18 digits; a minor of 20 digits or more without leading
\* zeros makes the conversion panic; a string that holds no such token, as
\* go0.<minor> or a major of two digits, gives 0.
C4_EncodesLeftmostToken ==
    (call.fn = "parseToolVersion" /\ ret.done) =>
        LET s == call.arg
            tokens == {t \in (1..Len(s)) \X (1..Len(s)) : ToolVersionTokenAt(s, t[1], t[2])}
        IN  IF tokens = {}
            THEN ~ret.panicked /\ ret.value = toolVersionUnknown
            ELSE LET i == Min({t[1] : t \in tokens})
                     n == CHOOSE n \in 1..Len(s) : <<i, n>> \in tokens
                 IN  /\ n <= 18 =>
                          /\ ~ret.panicked
                          /\ ret.value = 10 * DecimalValue(<<s[i + 2]>>)
                                         + DecimalValue(SubSeq(s, i + 4, i + 3 + n))
                          /\ ret.value >= 10
                     /\ (n >= 20 /\ s[i + 4] # "0") => ret.panicked

\* C4 witness: go1.21.3 encoded as 31.
C4_Witness ==
    /\ call.fn = "parseToolVersion" /\ ret.done
    /\ call.arg = <<"g", "o", "1", ".", "2", "1", ".", "3">>
    /\ ret.value = 31

-----------------------------------------------------------------------------
(* C5 *)

\* C5: in a successful run the settings are gitCommit then gitTreeState,
\* both there exactly when the commit ID is not empty, then version, there
\* exactly when the version is not empty, each with its value and nothing
\* else, and what is printed is these settings joined by single spaces, in
\* one write (the logger ends it with a line break).
C5_OrderedSettings ==
    Succeeded =>
        LET printed == SettingsOn(stdout) \o SettingsOn(stderr)
            pair == IF commitID # <<>>
                    THEN << <<<<"g", "i", "t", "C", "o", "m", "m", "i", "t">>, commitID>>, <<<<"g", "i", "t", "T", "r", "e", "e", "S", "t", "a", "t", "e">>, treeState>> >>
                    ELSE <<>>
            last == IF version # <<>> THEN << <<<<"v", "e", "r", "s", "i", "o", "n">>, version>> >> ELSE <<>>
        IN  /\ \A k \in 1..Len(linkFlags) : WellFormed(linkFlags[k])
            /\ [k \in 1..Len(linkFlags) |->
                    <<KeyOf(linkFlags[k]), ValueOf(linkFlags[k])>>] = pair \o last
            /\ Len(printed) = 1
            /\ WithoutLineBreak(printed[1].text) = Join(linkFlags, <<" ">>)

\* C5 witness: a successful run that printed all three settings.
C5_Witness ==
    /\ Succeeded
    /\ Len(linkFlags) = 3
    /\ version # <<>>

-----------------------------------------------------------------------------
(* C6 *)

\* C6: in a successful run every setting is "-X <package>.<key> <value>"
\* when the encoded tool version is at most 14 and
\* "-X <package>.<key>=<value>" when it is above; go1.4 (14) gives the
\* former, go1.5 (15) and go1.21.3 (31) the latter.
C6_SyntaxByToolVersion ==
    Succeeded =>
        LET sep == IF goVersion <= 14 THEN " " ELSE "="
        IN  /\ \A k \in 1..Len(linkFlags) :
                  /\ WellFormed(linkFlags[k])
                  /\ linkFlags[k][SeparatorAt(linkFlags[k])] = sep
                  /\ linkFlags[k] = <<"-", "X", " ">> \o versionPackage \o <<".">>
                        \o KeyOf(linkFlags[k]) \o <<sep>> \o ValueOf(linkFlags[k])
            /\ GoVersionToken = <<"g", "o", "1", ".", "4">> => (goVersion = 14 /\ sep = " ")
            /\ GoVersionToken = <<"g", "o", "1", ".", "5">> => (goVersion = 15 /\ sep = "=")
            /\ GoVersionToken = <<"g", "o", "1", ".", "2", "1", ".", "3">> => (goVersion = 31 /\ sep = "=")

\* C6 witness: a successful run under go1.4, at the boundary, with settings
\* printed.
C6_Witness ==
    /\ Succeeded
    /\ GoVersionToken = <<"g", "o", "1", ".", "4">>
    /\ goVersion = 14
    /\ Len(linkFlags) = 3

-----------------------------------------------------------------------------
(* C7 *)

\* C7 (as stated): a successful run has written the joined settings to
\* standard output; settings are never written to standard error, and a
\* diagnostic is never written to standard output.
C7_SettingsOnStandardOutput ==
    /\ Succeeded =>
          /\ Len(SettingsOn(stdout)) = 1
          /\ WithoutLineBreak(SettingsOn(stdout)[1].text) = Join(linkFlags, <<" ">>)
    /\ SettingsOn(stderr) = <<>>
    /\ DiagnosticsOn(stdout) = <<>>

-----------------------------------------------------------------------------
(* C8 *)

\* C8: when commit-ID resolution or the tree-state query has failed, the run
\* has ended with a non-zero exit and exactly one diagnostic, no setting was
\* built or printed, and no later command was run; no command is ever run
\* twice.
C8_RepositoryFailureIsFatal ==
    /\ (FailedCall(<<"r", "e", "v", "-", "p", "a", "r", "s", "e">>) \/ FailedCall(<<"s", "t", "a", "t", "u", "s">>)) =>
          /\ pc = "exited"
          /\ exitCode \notin {Running, <<0>>}
          /\ Len(stderr) = 1 /\ stderr[1].via = "Fatal"
          /\ stdout = <<>>
          /\ linkFlags = <<>>
          /\ calls[Len(calls)].err
    /\ \A name \in {<<"v", "e", "r", "s", "i", "o", "n">>, <<"r", "e", "v", "-", "p", "a", "r", "s", "e">>, <<"s", "t", "a", "t", "u", "s">>, <<"d", "e", "s", "c", "r", "i", "b", "e">>} :
          Cardinality(Invoked(name)) <= 1

\* C8 witness: the commit ID was resolved and the tree-state query failed.
C8_Witness ==
    /\ pc = "exited"
    /\ Invoked(<<"r", "e", "v", "-", "p", "a", "r", "s", "e">>) # {} /\ ~FailedCall(<<"r", "e", "v", "-", "p", "a", "r", "s", "e">>)
    /\ FailedCall(<<"s", "t", "a", "t", "u", "s">>)

-----------------------------------------------------------------------------
(* C9 *)

-----------------------------------------------------------------------------
(* C10 *)

\* C10: semverify applied to its own result returns it unchanged, and
\* semverify returns unchanged every string that ends with -dirty.
C10_SecondPassIsNoOp ==
    call.fn = "semverify" =>
        /\ ret.twice => ret.again = ret.str
        /\ (ret.done /\ HasSuffix(call.arg, DirtySuffix)) => ret.str = call.arg

\* C10 witness: a string that semverify rewrote, handed to it again.
C10_Witness ==
    /\ call.fn = "semverify"
    /\ ret.twice
    /\ ret.str # call.arg

====
